---- MODULE Spec2Model ----
\* Model of src/database.py: the connect() context manager and the public
\* operations built on it (sql_execute, list_tables, ins_def, get_def, del_def),
\* over one SQLite file holding the table defs(server, command, def).
\*
\* Two specifications share every definition of the code:
\*   Spec      one caller, every public operation is one atomic action
\*             (the call runs from entry to exit with nobody else active);
\*   ConcSpec  several callers, every call advances one step of connect() at a
\*             time, so that calls interleave on the database file.
EXTENDS Integers, Sequences, FiniteSets, TLC

\* ---------------------------------------------------------------- bounds

\* Most rows the defs table holds in the model.
MaxRows == 2

\* ---------------------------------------------------------------- inputs

\* Database paths: one the engine can open, one it cannot (missing directory).
GoodPath == "bot.db"
BadPath == "missing/bot.db"
Paths == {GoodPath, BadPath}

\* (server, command) pairs and definitions handed to the operations.
Keys == {<<1, "hello">>, <<1, "bye">>, <<2, "hello">>}
ConcKeys == {<<1, "hello">>}
Definitions == {"world", "moon"}

\* SQL texts handed to sql_execute.
SqlSelect == "SELECT * FROM defs"
SqlDelete == "DELETE FROM defs"
SqlCreate == "CREATE TABLE defs (server INTEGER, command TEXT, def TEXT)"
SqlDrop == "DROP TABLE defs"
SqlBad == "SELEC * FROM defs"
SqlTexts == {SqlSelect, SqlDelete, SqlCreate, SqlDrop, SqlBad}
ConcSqlTexts == {SqlDelete, SqlDrop, SqlCreate, SqlBad}

\* Concurrent callers (threads of the bot).
Callers == {"t1", "t2"}
SeqCaller == "t1"

\* ---------------------------------------------------------------- values

\* Python values returned by the operations.
None == [kind |-> "None"]
Bool(b) == [kind |-> "bool", b |-> b]
Str(s) == [kind |-> "str", s |-> s]
List(l) == [kind |-> "list", l |-> l]

\* ---------------------------------------------------------------- state

VARIABLES
    path,    \* the database path the bot passes to every call
    tables,  \* committed schema of the file: the table names in sqlite_master
    defs,    \* committed rows of the table defs, in rowid order
    conn,    \* per caller: its current (or last finished) call and connection
    prev     \* Spec only: while conn holds a get_def call, the call that
             \* finished just before it

vars == <<path, tables, defs, conn, prev>>

\* ------------------------------------------------- the engine (sqlite3)

\* sqlite3.connect(path) succeeds.
Openable(p) == p = GoodPath

\* WHERE server=? AND command=?
Matches(r, s, c) == r[1] = s /\ r[2] = c

\* Variant: the WHERE clause compares the server only.
SelectDefByServer(rows, s, c) ==
    LET m == SelectSeq(rows, LAMBDA r : r[1] = s)
    IN  [i \in 1..Len(m) |-> <<m[i][3]>>]

\* SELECT def FROM defs WHERE server=? AND command=? : the result rows.
SelectDef(rows, s, c) ==
    LET m == SelectSeq(rows, LAMBDA r : Matches(r, s, c))
    IN  [i \in 1..Len(m) |-> <<m[i][3]>>]

\* Variant: INSERT OR REPLACE on a table keyed by (server, command).
InsertOrReplaceDef(rows, s, c, d) ==
    Append(SelectSeq(rows, LAMBDA r : ~Matches(r, s, c)), <<s, c, d>>)

\* INSERT INTO defs (server, command, def) VALUES (?, ?, ?)
InsertDef(rows, s, c, d) == Append(rows, <<s, c, d>>)

\* Variant: DELETE ... LIMIT 1, only the first matching row goes.
DeleteOneDef(rows, s, c) ==
    LET hit == {i \in 1..Len(rows) : Matches(rows[i], s, c)} IN
    IF hit = {} THEN rows
    ELSE LET first == CHOOSE i \in hit : \A j \in hit : i <= j
         IN  SubSeq(rows, 1, first - 1) \o SubSeq(rows, first + 1, Len(rows))

\* Variant: the WHERE clause compares the server only.
DeleteDefByServer(rows, s, c) == SelectSeq(rows, LAMBDA r : r[1] # s)

\* DELETE FROM defs WHERE server=? AND command=?
DeleteDef(rows, s, c) == SelectSeq(rows, LAMBDA r : ~Matches(r, s, c))

\* SELECT name FROM sqlite_master WHERE type='table'
SelectTables(tabs) == IF "defs" \in tabs THEN << <<"defs">> >> ELSE << >>

\* The statement a call hands to cursor.execute.
Statement(c) ==
    CASE c.op = "ins_def" -> "INSERT"
      [] c.op = "get_def" -> "SELECT_DEF"
      [] c.op = "del_def" -> "DELETE_DEF"
      [] c.op = "list_tables" -> "SELECT_TABLES"
      [] c.op = "sql_execute" /\ c.sql = SqlSelect -> "SELECT_ALL"
      [] c.op = "sql_execute" /\ c.sql = SqlDelete -> "DELETE_ALL"
      [] c.op = "sql_execute" /\ c.sql = SqlCreate -> "CREATE"
      [] c.op = "sql_execute" /\ c.sql = SqlDrop -> "DROP"
      [] OTHER -> "SYNTAX_ERROR"

\* The sqlite3 module opens a transaction before INSERT/UPDATE/DELETE/REPLACE
\* only; every other statement runs in autocommit mode.
IsDML(st) == st \in {"INSERT", "DELETE_DEF", "DELETE_ALL"}
IsWrite(st) == st \in {"INSERT", "DELETE_DEF", "DELETE_ALL", "CREATE", "DROP"}
IsRead(st) == st \in {"SELECT_DEF", "SELECT_ALL", "SELECT_TABLES"}
UsesDefs(st) == st \in {"INSERT", "SELECT_DEF", "DELETE_DEF", "SELECT_ALL", "DELETE_ALL", "DROP"}

\* cursor.execute raises sqlite3.Error: syntax error, no such table, table
\* already exists, or database is locked (another connection holds the
\* write lock and the busy timeout ran out).
ExecuteFails(st, tabs, locked) ==
    \/ st = "SYNTAX_ERROR"
    \/ UsesDefs(st) /\ "defs" \notin tabs
    \/ st = "CREATE" /\ "defs" \in tabs
    \/ IsWrite(st) /\ locked

\* The rows of defs as the statement leaves them.
RowsAfter(c, st, rows) ==
    CASE st = "INSERT" -> InsertDef(rows, c.server, c.command, c.definition)
      [] st = "DELETE_DEF" -> DeleteDef(rows, c.server, c.command)
      [] st \in {"DELETE_ALL", "DROP", "CREATE"} -> << >>
      [] OTHER -> rows

\* The schema as the statement leaves it.
TablesAfter(st, tabs) ==
    CASE st = "CREATE" -> tabs \cup {"defs"}
      [] st = "DROP" -> tabs \ {"defs"}
      [] OTHER -> tabs

\* What the cursor holds for fetchall/fetchone after the statement.
Fetched(c, st, tabs, rows) ==
    CASE st = "SELECT_DEF" -> SelectDef(rows, c.server, c.command)
      [] st = "SELECT_ALL" -> rows
      [] st = "SELECT_TABLES" -> SelectTables(tabs)
      [] OTHER -> << >>

\* ------------------------------------------------------------ the calls

Ops == {"sql_execute", "list_tables", "ins_def", "get_def", "del_def"}

\* A call at its entry: arguments bound, connection not yet opened.
\*   pc       where the call stands in connect(): connect, body (the with
\*            block), except, else, finally, after (behind the with), done
\*   db       the local name db: unbound, open or closed
\*   view     the rows of defs changed but not yet committed by this connection
\*   inTxn    the connection has an open transaction holding the write lock
\*   reading  the cursor holds a SELECT, hence a read lock on the file
\*   exc      the exception in flight ("none" when there is none)
\*   ret      the value the body's return statement produced
\*   returns  the body executed a return statement
\*   printed  print(e) ran
\*   settle   the call made on db before closing: commit, rollback or none
\*   dirty    db.close() ran while the transaction was still open
\*   before   what a lookup of (server, command) gave when the call began
NewCall(op, s, c, d, sql, commit) ==
    [op |-> op, server |-> s, command |-> c, definition |-> d, sql |-> sql,
     commit |-> commit, pc |-> "connect", db |-> "unbound", view |-> << >>,
     inTxn |-> FALSE, reading |-> FALSE, exc |-> "none", ret |-> None,
     returns |-> FALSE, printed |-> FALSE, settle |-> "none", dirty |-> FALSE,
     before |-> None]

NoCall == [NewCall("none", 0, "", "", "", FALSE) EXCEPT !.pc = "done"]

\* db = sqlite3.connect(path); cursor = db.cursor(); yield cursor
AtConnect(c, p) ==
    IF Openable(p)
    THEN [c EXCEPT !.db = "open", !.pc = "body"]
    ELSE [c EXCEPT !.exc = "sqlite3.Error", !.pc = "except"]

\* The value the with block returns after a successful execute.
BodyReturn(c, st, tabs, rows) ==
    LET got == Fetched(c, st, tabs, rows) IN
    CASE c.op = "ins_def" -> Bool(TRUE)
      [] c.op = "get_def" -> IF Len(got) = 0 THEN None ELSE Str(got[1][1])
      [] c.op = "del_def" -> None
      [] OTHER -> List(got)

\* The with block: c.execute(...) and the return statement. Returns the call,
\* and the committed schema and rows (an autocommit statement changes them).
AtBody(c, tabs, rows, locked) ==
    LET st == Statement(c) IN
    IF ExecuteFails(st, tabs, locked)
    THEN [c |-> [c EXCEPT !.exc = "sqlite3.Error", !.pc = "except"],
          tables |-> tabs, defs |-> rows]
    ELSE [c |-> [c EXCEPT !.view = IF IsDML(st) THEN RowsAfter(c, st, rows) ELSE << >>,
                          !.inTxn = IsDML(st),
                          !.reading = IsRead(st),
                          !.ret = BodyReturn(c, st, tabs, rows),
                          !.returns = (c.op # "del_def"),
                          !.pc = "else"],
          tables |-> TablesAfter(st, tabs),
          defs |-> IF IsDML(st) THEN rows ELSE RowsAfter(c, st, rows)]

\* except sqlite3.Error as e: print(e)
AtExcept(c) ==
    [c EXCEPT !.printed = TRUE, !.exc = "none", !.pc = "finally"]

\* Variant: the else branch commits whatever the flag says.
AtElseAlwaysCommit(c, rows, busy) ==
    [c |-> [c EXCEPT !.settle = "commit", !.inTxn = FALSE, !.view = << >>,
                     !.pc = "finally"],
     defs |-> IF c.inTxn THEN c.view ELSE rows]

\* Variant: the else branch has no rollback; without the flag it does nothing.
AtElseNoRollback(c, rows, busy) ==
    IF c.commit
    THEN [c |-> [c EXCEPT !.settle = "commit", !.inTxn = FALSE, !.view = << >>,
                          !.pc = "finally"],
          defs |-> IF c.inTxn THEN c.view ELSE rows]
    ELSE [c |-> [c EXCEPT !.pc = "finally"], defs |-> rows]

\* else: db.commit() if commit, db.rollback() otherwise. busy: the engine
\* refuses the commit (database is locked) and db.commit() raises.
AtElse(c, rows, busy) ==
    IF c.commit
    THEN IF busy /\ c.inTxn
         THEN [c |-> [c EXCEPT !.settle = "commit", !.exc = "sqlite3.Error",
                               !.pc = "finally"],
               defs |-> rows]
         ELSE [c |-> [c EXCEPT !.settle = "commit", !.inTxn = FALSE,
                               !.view = << >>, !.pc = "finally"],
               defs |-> IF c.inTxn THEN c.view ELSE rows]
    ELSE [c |-> [c EXCEPT !.settle = "rollback", !.inTxn = FALSE,
                          !.view = << >>, !.pc = "finally"],
          defs |-> rows]

\* finally: db.close()
AtFinally(c) ==
    IF c.db = "unbound"
    THEN [c EXCEPT !.exc = "UnboundLocalError", !.ret = None, !.pc = "done"]
    ELSE [c EXCEPT !.db = "closed", !.dirty = c.inTxn, !.inTxn = FALSE,
                   !.view = << >>,
                   !.reading = IF c.exc = "none" THEN c.reading ELSE FALSE,
                   !.ret = IF c.exc = "none" THEN c.ret ELSE None,
                   !.pc = IF c.exc = "none" THEN "after" ELSE "done"]

\* Variant: nothing stands behind the with block of ins_def.
AtAfterNoFalse(c) == [c EXCEPT !.reading = FALSE, !.pc = "done"]

\* Leaving the with statement: the body's return value if it returned,
\* otherwise the statements behind the with block.
AtAfter(c) ==
    IF c.returns
    THEN [c EXCEPT !.reading = FALSE, !.pc = "done"]
    ELSE [c EXCEPT !.reading = FALSE, !.pc = "done",
                   !.ret = IF c.op = "ins_def" THEN Bool(FALSE) ELSE None]

\* One whole call, run from its entry to its exit with no other caller active.
RECURSIVE RunCall(_, _, _, _)
RunCall(c, p, tabs, rows) ==
    CASE c.pc = "connect" -> RunCall(AtConnect(c, p), p, tabs, rows)
      [] c.pc = "body" ->
            LET w == AtBody(c, tabs, rows, FALSE)
            IN  RunCall(w.c, p, w.tables, w.defs)
      [] c.pc = "except" -> RunCall(AtExcept(c), p, tabs, rows)
      [] c.pc = "else" ->
            LET w == AtElse(c, rows, FALSE)
            IN  RunCall(w.c, p, tabs, w.defs)
      [] c.pc = "finally" -> RunCall(AtFinally(c), p, tabs, rows)
      [] c.pc = "after" -> RunCall(AtAfter(c), p, tabs, rows)
      [] OTHER -> [c |-> c, tables |-> tabs, defs |-> rows]

\* What a lookup of (s, c) gives on the committed store.
Lookup(tabs, rows, s, c) ==
    IF "defs" \in tabs /\ Len(SelectDef(rows, s, c)) > 0
    THEN Str(SelectDef(rows, s, c)[1][1])
    ELSE None

\* ------------------------------------------------------------------ Init

\* The file at path is either fresh (no table) or provisioned with an empty
\* defs table; no call has been made.
Init ==
    /\ path \in Paths
    /\ tables \in {{}, {"defs"}}
    /\ Openable(path) \/ tables = {}
    /\ defs = << >>
    /\ conn = [t \in Callers |-> NoCall]
    /\ prev = NoCall

\* ------------------------------------------- Spec: one call per action

\* The caller makes the call c and it runs to its exit.
Invoke(t, c) ==
    LET w == RunCall([c EXCEPT !.before = Lookup(tables, defs, c.server, c.command)],
                     path, tables, defs)
    IN  /\ conn' = [conn EXCEPT ![t] = w.c]
        /\ tables' = w.tables
        /\ defs' = w.defs
        /\ prev' = IF c.op = "get_def" THEN conn[t] ELSE NoCall
        /\ UNCHANGED path

sql_execute(t) ==
    \E sql \in SqlTexts, commit \in BOOLEAN :
        /\ conn[t].pc = "done"
        /\ Invoke(t, NewCall("sql_execute", 0, "", "", sql, commit))

list_tables(t) ==
    \E commit \in BOOLEAN :
        /\ conn[t].pc = "done"
        /\ Invoke(t, NewCall("list_tables", 0, "", "", "", commit))

ins_def(t) ==
    \E k \in Keys, d \in Definitions, commit \in BOOLEAN :
        /\ conn[t].pc = "done"
        /\ Len(defs) < MaxRows
        /\ Invoke(t, NewCall("ins_def", k[1], k[2], d, "", commit))

get_def(t) ==
    \E k \in Keys :
        /\ conn[t].pc = "done"
        /\ Invoke(t, NewCall("get_def", k[1], k[2], "", "", FALSE))

del_def(t) ==
    \E k \in Keys, commit \in BOOLEAN :
        /\ conn[t].pc = "done"
        /\ Invoke(t, NewCall("del_def", k[1], k[2], "", "", commit))

Next ==
    \/ sql_execute(SeqCaller)
    \/ list_tables(SeqCaller)
    \/ ins_def(SeqCaller)
    \/ get_def(SeqCaller)
    \/ del_def(SeqCaller)

Spec == Init /\ [][Next]_vars

\* ------------------------------ ConcSpec: calls interleave step by step

\* Another connection holds the write lock of the file.
WriteLocked(t) == \E u \in Callers \ {t} : conn[u].inTxn

\* Another connection holds a read lock, so a commit may be refused.
ReadLocked(t) == \E u \in Callers \ {t} : conn[u].reading

\* Inserts under way, counted against MaxRows.
Inserting == {u \in Callers : conn[u].op = "ins_def" /\ conn[u].pc # "done"}

\* The calls the concurrent callers make.
ConcCalls ==
    {NewCall("sql_execute", 0, "", "", sql, commit) :
        sql \in ConcSqlTexts, commit \in BOOLEAN}
    \cup {NewCall("list_tables", 0, "", "", "", FALSE)}
    \cup {NewCall("ins_def", k[1], k[2], d, "", commit) :
        k \in ConcKeys, d \in Definitions, commit \in BOOLEAN}
    \cup {NewCall("get_def", k[1], k[2], "", "", FALSE) : k \in ConcKeys}
    \cup {NewCall("del_def", k[1], k[2], "", "", commit) :
        k \in ConcKeys, commit \in BOOLEAN}

\* A caller enters one of the public operations.
Call(t) ==
    /\ conn[t].pc = "done"
    /\ \E c \in ConcCalls :
        /\ c.op = "ins_def" => Len(defs) + Cardinality(Inserting) < MaxRows
        /\ conn' = [conn EXCEPT ![t] = c]
    /\ UNCHANGED <<path, tables, defs, prev>>

Connect(t) ==
    /\ conn[t].pc = "connect"
    /\ conn' = [conn EXCEPT ![t] = AtConnect(conn[t], path)]
    /\ UNCHANGED <<path, tables, defs, prev>>

Body(t) ==
    /\ conn[t].pc = "body"
    /\ LET w == AtBody(conn[t], tables, defs, WriteLocked(t)) IN
        /\ conn' = [conn EXCEPT ![t] = w.c]
        /\ tables' = w.tables
        /\ defs' = w.defs
    /\ UNCHANGED <<path, prev>>

Except(t) ==
    /\ conn[t].pc = "except"
    /\ conn' = [conn EXCEPT ![t] = AtExcept(conn[t])]
    /\ UNCHANGED <<path, tables, defs, prev>>

Else(t) ==
    /\ conn[t].pc = "else"
    /\ \E busy \in {FALSE, ReadLocked(t)} :
        LET w == AtElse(conn[t], defs, busy) IN
        /\ conn' = [conn EXCEPT ![t] = w.c]
        /\ defs' = w.defs
    /\ UNCHANGED <<path, tables, prev>>

Finally(t) ==
    /\ conn[t].pc = "finally"
    /\ conn' = [conn EXCEPT ![t] = AtFinally(conn[t])]
    /\ UNCHANGED <<path, tables, defs, prev>>

After(t) ==
    /\ conn[t].pc = "after"
    /\ conn' = [conn EXCEPT ![t] = AtAfter(conn[t])]
    /\ UNCHANGED <<path, tables, defs, prev>>

ConcNext ==
    \E t \in Callers :
        \/ Call(t)
        \/ Connect(t)
        \/ Body(t)
        \/ Except(t)
        \/ Else(t)
        \/ Finally(t)
        \/ After(t)

ConcSpec == Init /\ [][ConcNext]_vars

\* ---------------------------------------------------------------- claims

\* The call held by the caller of Spec.
Cur == conn[SeqCaller]

\* The call c has finished and its function returned a value.
Returned(c) == c.op # "none" /\ c.pc = "done" /\ c.exc = "none"

SameKey(a, b) == a.server = b.server /\ a.command = b.command

\* The call c writes: ins_def, del_def, or sql_execute with a writing statement.
Mutating(c) == c.op \in {"ins_def", "del_def", "sql_execute"} /\ IsWrite(Statement(c))

\* The rows of rows that are not stored under (s, c), in their order.
RECURSIVE Without(_, _, _)
Without(rows, s, c) ==
    IF rows = << >> THEN << >>
    ELSE IF Head(rows)[1] = s /\ Head(rows)[2] = c
         THEN Without(Tail(rows), s, c)
         ELSE <<Head(rows)>> \o Without(Tail(rows), s, c)

\* A get_def has just returned, right after an ins_def with commit=True on the
\* same (server, command) returned True.
GetAfterCommittedInsert ==
    /\ Cur.op = "get_def" /\ Returned(Cur)
    /\ prev.op = "ins_def" /\ prev.commit /\ Returned(prev)
    /\ prev.ret = Bool(TRUE)
    /\ SameKey(Cur, prev)

\* C1, as stated: once ins_def(path, server, command, definition, commit=True)
\* has completed (returned True), the next get_def(path, server, command)
\* returns exactly that definition, whatever the store held before.
C1_GetReturnsInserted ==
    GetAfterCommittedInsert => Cur.ret = Str(prev.definition)

\* C1, amended: after such an ins_def the next get_def returns the def of the
\* oldest row stored for the pair: the inserted definition when the pair had
\* no row before the insert, the earlier stored definition otherwise.
C1_GetReturnsOldest ==
    GetAfterCommittedInsert =>
        Cur.ret = IF prev.before = None THEN Str(prev.definition) ELSE prev.before

\* C1 witness: an insert on a pair without a row, then a get that returns it.
C1_Witness ==
    GetAfterCommittedInsert /\ prev.before = None /\ Cur.ret = Str(prev.definition)

\* C2: no engine error, raised while opening the connection or while executing
\* a statement, makes an exception leave a public operation: every finished
\* call has returned.
C2_NoExceptionEscapes ==
    \A t \in Callers : conn[t].pc = "done" => conn[t].exc = "none"

\* C3: an operation run with commit=False leaves the persisted rows of defs
\* exactly as they were before the call.
C3_NoCommitLeavesRows ==
    [][~conn'[SeqCaller].commit => defs' = defs]_vars

\* A get_def has just returned, right after a del_def with commit=True on the
\* same (server, command) completed.
GetAfterCommittedDelete ==
    /\ Cur.op = "get_def" /\ Returned(Cur)
    /\ prev.op = "del_def" /\ prev.commit /\ Returned(prev)
    /\ SameKey(Cur, prev)

\* C4: after del_def(path, server, command, commit=True) has completed, the
\* next get_def(path, server, command) returns None, however many rows were
\* stored for the pair before the delete.
C4_GetAfterDeleteIsNone ==
    GetAfterCommittedDelete => Cur.ret = None

\* C4 witness: the delete found a row of the pair in the store.
C4_Witness ==
    GetAfterCommittedDelete /\ prev.before # None /\ Cur.ret = None

\* C5: after a public operation has finished no handle it opened is still
\* open, and close was applied only to a handle that was opened (db.close()
\* on the unbound name db ends the call with UnboundLocalError).
C5_ClosedAndOnlyIfOpened ==
    \A t \in Callers :
        conn[t].pc = "done" =>
            conn[t].db # "open" /\ conn[t].exc # "UnboundLocalError"

\* C6, as stated: the return False behind the with block is never reached;
\* when connect suppresses the engine error of the insert, ins_def yields None.
C6_SuppressedYieldsNone ==
    (Cur.op = "ins_def" /\ Returned(Cur) /\ Cur.printed) => Cur.ret = None

\* C6, amended: ins_def returns True when the insert ran without an engine
\* error, and when connect suppressed the engine error of the insert the
\* return False behind the with block is reached and the call yields False.
C6_TrueOrFalse ==
    (Cur.op = "ins_def" /\ Returned(Cur)) =>
        /\ ~Cur.printed => Cur.ret = Bool(TRUE)
        /\ Cur.printed => Cur.ret = Bool(FALSE)

\* C6 witness: an ins_def whose engine error was printed and suppressed.
C6_Witness ==
    Cur.op = "ins_def" /\ Returned(Cur) /\ Cur.printed /\ Cur.ret = Bool(FALSE)

\* C7, as stated: every mutating call settles its changes by an explicit
\* commit or rollback before its handle is closed, on the normal path and on
\* the error path alike, and never closes a handle that holds open changes.
C7_AlwaysSettled ==
    \A t \in Callers :
        (Mutating(conn[t]) /\ conn[t].db = "closed") =>
            conn[t].settle # "none" /\ ~conn[t].dirty

\* C7, amended: a mutating call whose statement raised no error calls commit
\* (commit=True) or rollback (commit=False) before it closes the handle; on
\* the suppressed-error path it calls neither and closes a handle holding no
\* change; a handle is closed with changes still open only after the engine
\* refused the commit, and close discards them. Every step leaves the rows
\* as they were or as the whole statement of one call makes them.
C7_SettledUnlessError ==
    /\ [](\A t \in Callers :
            (Mutating(conn[t]) /\ conn[t].db = "closed") =>
                /\ conn[t].printed <=> conn[t].settle = "none"
                /\ ~conn[t].printed =>
                      conn[t].settle = IF conn[t].commit THEN "commit" ELSE "rollback"
                /\ conn[t].dirty =>
                      conn[t].settle = "commit" /\ conn[t].exc = "sqlite3.Error")
    /\ [][\/ defs' = defs
          \/ \E t \in Callers :
                /\ conn'[t] # conn[t]
                /\ conn[t].pc \in {"body", "else"}
                /\ defs' = RowsAfter(conn[t], Statement(conn[t]), defs)]_vars

\* C7 witness: a mutating call closed its handle on the error path, with
\* neither commit nor rollback called.
C7_Witness ==
    \E t \in Callers :
        /\ Mutating(conn[t]) /\ conn[t].db = "closed"
        /\ conn[t].printed /\ conn[t].settle = "none"

C9_GetReturnsFirstMatch ==
    /\ []((Cur.op = "get_def" /\ Returned(Cur)) =>
            LET hit == {i \in 1..Len(defs) :
                          defs[i][1] = Cur.server /\ defs[i][2] = Cur.command}
            IN  /\ Cur.ret = None <=> hit = {}
                /\ hit # {} =>
                      \E i \in hit : /\ \A j \in hit : i <= j
                                     /\ Cur.ret = Str(defs[i][3]))
    /\ [][LET c == conn'[SeqCaller] IN
          (c.op = "ins_def" /\ c.commit /\ c.ret = Bool(TRUE)
           /\ conn' # conn) =>
              defs' = defs \o << <<c.server, c.command, c.definition>> >>]_vars

\* C9 witness: two rows of the pair with different defs are stored and get_def
\* returned the def of the older one.
C9_Witness ==
    /\ Cur.op = "get_def" /\ Returned(Cur)
    /\ \E i, j \in 1..Len(defs) :
          /\ i < j
          /\ defs[i][1] = Cur.server /\ defs[i][2] = Cur.command
          /\ defs[j][1] = Cur.server /\ defs[j][2] = Cur.command
          /\ defs[i][3] # defs[j][3]
          /\ Cur.ret = Str(defs[i][3])

\* C10: under any interleaving, each call works on its own connection: a step
\* of a call that rolls back (commit=False, else branch) or that handles a
\* suppressed error never changes the committed rows or schema; a commit
\* changes the committed rows by the committing call's own pending statement
\* only, keeping what other callers committed; and a get_def reads the rows
\* committed so far, so an insert committed before it starts is visible to it.
C10_CallsAreIsolated ==
    [][\A t \in Callers :
         /\ (conn'[t] # conn[t] /\ conn[t].pc = "else" /\ ~conn[t].commit) =>
               defs' = defs /\ tables' = tables
         /\ (conn'[t] # conn[t] /\ conn[t].pc \in {"except", "finally", "after"}) =>
               defs' = defs /\ tables' = tables
         /\ (conn'[t] # conn[t] /\ conn[t].pc = "else" /\ conn[t].commit
             /\ conn'[t].exc = "none") =>
               /\ tables' = tables
               /\ defs' = IF conn[t].inTxn
                          THEN RowsAfter(conn[t], Statement(conn[t]), defs)
                          ELSE defs
         /\ (conn'[t] # conn[t] /\ conn[t].pc = "body" /\ conn[t].op = "get_def"
             /\ conn'[t].pc = "else") =>
               LET hit == {i \in 1..Len(defs) :
                             defs[i][1] = conn[t].server /\ defs[i][2] = conn[t].command}
               IN  /\ conn'[t].ret = None <=> hit = {}
                   /\ hit # {} =>
                         \E i \in hit : /\ \A j \in hit : i <= j
                                        /\ conn'[t].ret = Str(defs[i][3])]_vars

\* C10 witness: one caller's committed insert is in the store after another
\* caller rolled back a delete of the same pair.
C10_Witness ==
    \E t, u \in Callers :
        /\ t # u
        /\ conn[t].op = "ins_def" /\ conn[t].commit /\ Returned(conn[t])
        /\ conn[t].ret = Bool(TRUE)
        /\ conn[u].op = "del_def" /\ ~conn[u].commit /\ Returned(conn[u])
        /\ conn[u].settle = "rollback"
        /\ SameKey(conn[t], conn[u])
        /\ \E i \in 1..Len(defs) :
              defs[i] = <<conn[t].server, conn[t].command, conn[t].definition>>

====
